---- MODULE Spec2Model ----
(***************************************************************************)
(* people_headcount_app.py: a Streamlit page that loads an employee roster *)
(* from a CSV file (memoised by st.cache_data), lets the user pick a       *)
(* target headcount with a slider, selects the top-N rows by comp_usd and  *)
(* shows sum / mean / median of the selected compensation.                 *)
(*                                                                         *)
(* Strings are sequences of one-character strings, so that startswith and  *)
(* the numeric parse are computed character by character.                  *)
(***************************************************************************)
EXTENDS Integers, Sequences, FiniteSets, TLC

VARIABLES
    file,       \* the CSV file at CSV_PATH as it is on disk
    tieOrder,   \* the order in which this build's sort leaves equal keys
    cache,      \* st.cache_data entry of load_roster(CSV_PATH)
    reads,      \* number of pd.read_csv calls made so far
    runs,       \* number of script runs started so far
    edits,      \* number of times the file was changed on disk
    slider,     \* widget state of the "Target headcount" slider
    page,       \* the variables and rendered elements of the latest run
    source,     \* history: the file contents the cached roster was read from
    seen        \* history: first result rendered for each target_headcount

vars == <<file, tieOrder, cache, reads, runs, edits, slider, page, source, seen>>

-----------------------------------------------------------------------------
(* Bounds of the model *)

MaxRows == 3
MaxRuns == 3
MaxEdits == 1
MaxBelow == 2
MaxAbove == 2

NoValue == "NoValue"

\* an optional value is the empty sequence or a sequence of one element
None == <<>>
Some(x) == <<x>>

-----------------------------------------------------------------------------
(* Strings and numbers *)

Digits == {"0", "1", "2", "3", "4", "5", "6", "7", "8", "9"}

DigitVal(c) ==
    CASE c = "0" -> 0 [] c = "1" -> 1 [] c = "2" -> 2 [] c = "3" -> 3
      [] c = "4" -> 4 [] c = "5" -> 5 [] c = "6" -> 6 [] c = "7" -> 7
      [] c = "8" -> 8 [] c = "9" -> 9

IsDigits(s) == \A i \in 1..Len(s) : s[i] \in Digits

RECURSIVE ToNat(_)
ToNat(s) ==
    IF s = <<>> THEN 0
    ELSE ToNat(SubSeq(s, 1, Len(s) - 1)) * 10 + DigitVal(s[Len(s)])

\* str.startswith("E", na=False)
StartsWith(s, c) == Len(s) >= 1 /\ s[1] = c

NaN == [nan |-> TRUE, neg |-> FALSE, whole |-> 0, frac |-> <<>>]

\* pd.to_numeric(..., errors="coerce") on one field: an optional sign, digits
\* and at most one decimal point with at least one digit parse; anything else
\* (empty field, letters, "Total: 5") is coerced to NaN.
ToNumeric(s) ==
    LET signed == s # <<>> /\ s[1] \in {"-", "+"}
        body   == IF signed THEN Tail(s) ELSE s
        dots   == {i \in 1..Len(body) : body[i] = "."}
        dot    == IF dots = {} THEN Len(body) + 1 ELSE CHOOSE i \in dots : TRUE
        whole  == SubSeq(body, 1, dot - 1)
        frac   == SubSeq(body, dot + 1, Len(body))
    IN  IF /\ Cardinality(dots) <= 1
           /\ IsDigits(whole)
           /\ IsDigits(frac)
           /\ Len(whole) + Len(frac) >= 1
        THEN [nan |-> FALSE, neg |-> (signed /\ s[1] = "-"),
              whole |-> ToNat(whole), frac |-> frac]
        ELSE NaN

\* .astype(int) on a non-NaN value: the fraction is dropped (toward zero)
AsInt(x) == IF x.neg THEN -x.whole ELSE x.whole

\* int(a / b) for b > 0: Python's int() truncates toward zero
TruncDiv(a, b) == IF a >= 0 THEN a \div b ELSE -((-a) \div b)

Min(a, b) == IF a <= b THEN a ELSE b
Max(a, b) == IF a >= b THEN a ELSE b

\* mathematical floor(a / b) for b > 0
Floor(a, b) == a \div b

-----------------------------------------------------------------------------
(* load_roster *)

Raised(what) == [ok |-> FALSE, exc |-> what, df |-> <<>>]
Returned(df) == [ok |-> TRUE, exc |-> NoValue, df |-> df]

\* (variant) keeps every row that has any employee_id at all
KeepNonEmptyIds(df) == SelectSeq(df, LAMBDA r : r.employee_id # <<>>)

\* df[df["employee_id"].str.startswith("E", na=False)]
KeepEmployees(df) == SelectSeq(df, LAMBDA r : StartsWith(r.employee_id, "E"))

\* df.dropna(subset=["comp_usd"])
DropNa(df) == SelectSeq(df, LAMBDA r : ~r.comp_usd.nan)

\* The body of load_roster: what one uncached call returns or raises.
\* Each row keeps its DataFrame index label (its position in the file).
LoadRoster(f) ==
    IF ~f.readable THEN Raised("OSError")
    ELSE IF "comp_usd" \notin f.columns THEN Raised("RuntimeError")
    ELSE IF "employee_id" \notin f.columns THEN Raised("KeyError")
    ELSE
      LET parsed == [i \in 1..Len(f.rows) |->
                        [index |-> i,
                         employee_id |-> f.rows[i].employee_id,
                         comp_usd |-> ToNumeric(f.rows[i].comp_usd)]]
          kept   == DropNa(KeepEmployees(parsed))
      IN  Returned([j \in 1..Len(kept) |->
                [index |-> kept[j].index,
                 employee_id |-> kept[j].employee_id,
                 comp_usd |-> AsInt(kept[j].comp_usd)]])

-----------------------------------------------------------------------------
(* Selection and aggregation: lines 84-91 *)

\* Row i sorts before row j of df under
\* sort_values("comp_usd", ascending=False). The default kind="quicksort" is
\* not a stable sort, so where rows with equal comp_usd end up is left to the
\* sort of the numpy build in use: order ranks the row positions the way that
\* build leaves equal keys.
Precedes(df, i, j, order) ==
    \/ df[i].comp_usd > df[j].comp_usd
    \/ df[i].comp_usd = df[j].comp_usd /\ order[i] < order[j]

RECURSIVE InsertPos(_, _, _, _)
InsertPos(i, s, df, order) ==
    IF s = <<>> THEN <<i>>
    ELSE IF Precedes(df, i, Head(s), order) THEN <<i>> \o s
    ELSE <<Head(s)>> \o InsertPos(i, Tail(s), df, order)

RECURSIVE ArgSort(_, _, _)
ArgSort(n, df, order) ==
    IF n = 0 THEN <<>>
    ELSE InsertPos(n, ArgSort(n - 1, df, order), df, order)

SortValues(df, order) ==
    LET pos == ArgSort(Len(df), df, order)
    IN  [i \in 1..Len(df) |-> df[pos[i]]]

\* (variant) an inclusive slice, iloc[:n + 1]
HeadRowsInclusive(s, n) ==
    IF n >= 0 THEN SubSeq(s, 1, Min(n + 1, Len(s)))
    ELSE SubSeq(s, 1, Max(Len(s) + n + 1, 0))

\* DataFrame.head(n) is iloc[:n]: the first n rows, all rows when n exceeds
\* the length, and all but the last -n rows when n is negative.
HeadRows(s, n) ==
    IF n >= 0 THEN SubSeq(s, 1, Min(n, Len(s)))
    ELSE SubSeq(s, 1, Max(Len(s) + n, 0))

Comps(sel) == [i \in 1..Len(sel) |-> sel[i].comp_usd]

RECURSIVE SumSeq(_)
SumSeq(v) == IF v = <<>> THEN 0 ELSE Head(v) + SumSeq(Tail(v))

RECURSIVE InsertAsc(_, _)
InsertAsc(x, s) ==
    IF s = <<>> THEN <<x>>
    ELSE IF x <= Head(s) THEN <<x>> \o s
    ELSE <<Head(s)>> \o InsertAsc(x, Tail(s))

RECURSIVE SortAsc(_)
SortAsc(v) == IF v = <<>> THEN <<>> ELSE InsertAsc(Head(v), SortAsc(Tail(v)))

\* (variant) a sum that misses the last selected row
TotalCostDropLast(sel) ==
    IF sel = <<>> THEN 0 ELSE SumSeq(Comps(SubSeq(sel, 1, Len(sel) - 1)))

\* int(selected["comp_usd"].sum()) if not selected.empty else 0
TotalCost(sel) == IF sel = <<>> THEN 0 ELSE SumSeq(Comps(sel))

\* (variant) floor division, sum // count
AverageCostFloor(sel) ==
    IF sel = <<>> THEN 0 ELSE SumSeq(Comps(sel)) \div Len(sel)

\* int(selected["comp_usd"].mean()) if not selected.empty else 0
AverageCost(sel) ==
    IF sel = <<>> THEN 0 ELSE TruncDiv(SumSeq(Comps(sel)), Len(sel))

\* (variant) the upper middle value, with no averaging for an even count
MedianCostUpper(sel) ==
    IF sel = <<>> THEN 0
    ELSE SortAsc(Comps(sel))[Len(sel) \div 2 + 1]

\* int(selected["comp_usd"].median()) if not selected.empty else 0
MedianCost(sel) ==
    IF sel = <<>> THEN 0
    ELSE LET s == SortAsc(Comps(sel))
             n == Len(s)
         IN  IF n % 2 = 1 THEN s[(n + 1) \div 2]
             ELSE TruncDiv(s[n \div 2] + s[n \div 2 + 1], 2)

\* selected = roster_df.sort_values("comp_usd", ascending=False).head(k)
Selected(df, k, order) == HeadRows(SortValues(df, order), k)

-----------------------------------------------------------------------------
(* One run of the script, top to bottom *)

DefaultHeadcount == 10

NoPage ==
    [status |-> "none", roster_df |-> <<>>, total_employees |-> 0,
     target_headcount |-> 0, selected |-> <<>>, total_cost |-> 0,
     average_cost |-> 0, median_cost |-> 0, shown |-> {}]

\* except Exception: st.error(...); st.stop() -- nothing below line 70 runs
ErrorPage == [NoPage EXCEPT !.status = "error", !.shown = {"error"}]

\* st.sidebar.slider(min_value=0, max_value=total, value=min(10, total)):
\* the widget's stored value, or the default when it has none yet
SliderValue(w, total) ==
    IF w = None THEN Min(DefaultHeadcount, total) ELSE w[1]

\* lines 86-136 for a given roster and target_headcount
Render(df, k, order) ==
    LET sel == Selected(df, k, order)
    IN  [status |-> "ok", roster_df |-> df, total_employees |-> Len(df),
         target_headcount |-> k, selected |-> sel,
         total_cost |-> TotalCost(sel),
         average_cost |-> AverageCost(sel),
         median_cost |-> MedianCost(sel),
         shown |-> {"slider", "kpi", "caption"} \cup
                   (IF sel = <<>> THEN {"info"} ELSE {"table", "download"})]

\* (variant) the except branch without st.stop()
ScriptNoStop(load, w, order) ==
    Render(load.df, SliderValue(w, Len(load.df)), order)

\* lines 66-136: the page a run leaves, given what load_roster did
Script(load, w, order) ==
    IF ~load.ok THEN ErrorPage
    ELSE Render(load.df, SliderValue(w, Len(load.df)), order)

EmptyCache == [full |-> FALSE, df |-> <<>>]

\* (variant) a memo that is never consulted
AlwaysMiss(c) == TRUE

\* @st.cache_data: the call is a miss when nothing is stored for CSV_PATH
Miss(c) == ~c.full

\* @st.cache_data: a stored value is returned without calling the function
CachedCall(c, f) == IF Miss(c) THEN LoadRoster(f) ELSE Returned(c.df)

\* (variant) a memo that stores nothing
CacheStoreNothing(c, load) == c

\* @st.cache_data stores the value a call returns; a call that raises
\* stores nothing
CacheStore(c, load) ==
    IF c.full THEN c
    ELSE IF load.ok THEN [full |-> TRUE, df |-> load.df]
    ELSE c

Summary(p) ==
    [selected |-> p.selected, total_cost |-> p.total_cost,
     average_cost |-> p.average_cost, median_cost |-> p.median_cost]

\* A script run with widget state w.
Run(w) ==
    \E load \in {CachedCall(cache, file)} :
    \E p \in {Script(load, w, tieOrder)} :
        /\ runs < MaxRuns
        /\ runs' = runs + 1
        /\ reads' = IF Miss(cache) THEN reads + 1 ELSE reads
        /\ cache' = CacheStore(cache, load)
        /\ source' = IF Miss(cache) /\ ~cache.full /\ load.ok
                     THEN Some(file) ELSE source
        /\ page' = p
        /\ slider' = IF p.status = "ok" THEN Some(p.target_headcount) ELSE None
        /\ seen' = IF /\ p.status = "ok"
                      /\ p.target_headcount \in DOMAIN seen
                      /\ seen[p.target_headcount] = None
                   THEN [seen EXCEPT ![p.target_headcount] = Some(Summary(p))]
                   ELSE seen
        /\ UNCHANGED <<file, tieOrder, edits>>

\* A browser opens the page: a new session, no widget state yet.
OpenPage == Run(None)

\* The user presses Rerun: same session, same widget state.
Rerun == runs > 0 /\ Run(slider)

\* The user drags the slider to k, which reruns the script.
MoveSlider(k) ==
    /\ "slider" \in page.shown
    /\ k \in 0..page.total_employees
    /\ slider # Some(k)
    /\ Run(Some(k))

-----------------------------------------------------------------------------
(* The file on disk *)

Row(id, comp) == [employee_id |-> id, comp_usd |-> comp]

RowKinds ==
    { Row(<<"E", "1">>, <<"3">>),
      Row(<<"E", "2">>, <<"-", "2", ".", "7">>),
      Row(<<"E", "3">>, <<"n", "/", "a">>),
      Row(<<"S", "U", "M">>, <<"T", ":", "5">>),
      Row(<<"X", "9">>, <<"1">>) }

Table(rows) ==
    [readable |-> TRUE, columns |-> {"employee_id", "comp_usd"}, rows |-> rows]

Deleted == [readable |-> FALSE, columns |-> {}, rows |-> <<>>]

NoCompColumn ==
    [readable |-> TRUE, columns |-> {"employee_id"}, rows |-> <<>>]

NoIdColumn ==
    [readable |-> TRUE, columns |-> {"comp_usd"}, rows |-> <<>>]

SeqsUpTo(S, n) == UNION {[1..m -> S] : m \in 0..n}

Files ==
    {Table(rows) : rows \in SeqsUpTo(RowKinds, MaxRows)}
        \cup {Deleted, NoCompColumn, NoIdColumn}

\* Someone replaces or removes the file between two runs.
EditFile ==
    /\ edits < MaxEdits
    /\ edits' = edits + 1
    /\ file' \in {Deleted, Table(<<Row(<<"E", "1">>, <<"3">>)>>)} \ {file}
    /\ UNCHANGED <<tieOrder, cache, reads, runs, slider, page, source, seen>>

\* the ways a sort can leave the rows of a roster that have equal keys
TieOrders(df) == Permutations(1..Len(df))

Init ==
    /\ file \in Files
    /\ tieOrder \in TieOrders(LoadRoster(file).df)
    /\ cache = EmptyCache
    /\ reads = 0
    /\ runs = 0
    /\ edits = 0
    /\ slider = None
    /\ page = NoPage
    /\ source = None
    /\ seen = [k \in 0..MaxRows |-> None]

Next ==
    \/ OpenPage
    \/ Rerun
    \/ \E k \in 0..MaxRows : MoveSlider(k)
    \/ EditFile

Spec == Init /\ [][Next]_vars

-----------------------------------------------------------------------------
(* select(roster, target_headcount) on its own: the roster and the target  *)
(* are drawn from bounded sets and lines 86-91 are applied to them.        *)

CompValues == {-3, -2, 50000, 100000, 100001, 300000}

IdChars == <<"1", "2", "3", "4", "5", "6", "7", "8", "9">>

Rosters ==
    { [i \in 1..Len(c) |->
          [index |-> i, employee_id |-> <<"E", IdChars[i]>>, comp_usd |-> c[i]]]
      : c \in SeqsUpTo(CompValues, MaxRows) }

EngineInit ==
    /\ file = Deleted
    /\ cache \in {[full |-> TRUE, df |-> r] : r \in Rosters}
    /\ tieOrder \in TieOrders(cache.df)
    /\ reads = 1
    /\ runs = 0
    /\ edits = 0
    /\ slider \in {Some(k) : k \in (0 - MaxBelow)..(MaxRows + MaxAbove)}
    /\ page = NoPage
    /\ source = None
    /\ seen = [k \in 0..MaxRows |-> None]

Select ==
    /\ page.status = "none"
    /\ page' = Render(cache.df, slider[1], tieOrder)
    /\ UNCHANGED <<file, tieOrder, cache, reads, runs, edits, slider, source, seen>>

EngineNext == Select

EngineSpec == EngineInit /\ [][EngineNext]_vars

-----------------------------------------------------------------------------
(* Properties of the selection and the aggregates (EngineSpec) *)

Computed == page.status = "ok"
K == page.target_headcount
R == page.roster_df
Sel == page.selected

\* a result was computed for a target within [0, |R|]
InRange == Computed /\ K \in 0..Len(R)

Count(s, r) == Cardinality({i \in 1..Len(s) : s[i] = r})
RangeOf(s) == {s[i] : i \in 1..Len(s)}
Unselected == RangeOf(R) \ RangeOf(Sel)

RECURSIVE SumOver(_, _)
SumOver(s, I) ==
    IF I = {} THEN 0
    ELSE LET i == CHOOSE x \in I : TRUE IN s[i].comp_usd + SumOver(s, I \ {i})

\* q is n / d with the fraction dropped (toward zero), for d > 0
IsTruncatedQuotient(q, n, d) ==
    IF n >= 0 THEN q >= 0 /\ q * d <= n /\ n < (q + 1) * d
    ELSE q <= 0 /\ q * d >= n /\ n > (q - 1) * d

\* C1: for a target k within [0, |R|] the Selection has exactly k records,
\* each a record of the roster, none more often than in the roster.
C1_SelectionHasKRecords ==
    InRange =>
        /\ Len(Sel) = K
        /\ \A i \in 1..Len(Sel) : Sel[i] \in RangeOf(R)
        /\ \A r \in RangeOf(Sel) : Count(Sel, r) <= Count(R, r)

C1_Witness == InRange /\ K > 0 /\ K < Len(R) /\ Len(Sel) = K

\* C2: the Selection is the first k records of the roster sorted by comp_usd
\* descending with a stable sort: comp_usd never increases along it, every
\* selected record has comp_usd >= every unselected one, and records with
\* equal comp_usd appear, and are chosen at the cut-off, in roster row order.
C2_StableTopK ==
    InRange =>
        /\ \A i, j \in 1..Len(Sel) : i < j =>
              \/ Sel[i].comp_usd > Sel[j].comp_usd
              \/ Sel[i].comp_usd = Sel[j].comp_usd /\ Sel[i].index < Sel[j].index
        /\ \A s \in RangeOf(Sel) : \A u \in Unselected :
              \/ s.comp_usd > u.comp_usd
              \/ s.comp_usd = u.comp_usd /\ s.index < u.index

\* C3: total_cost is the exact sum of comp_usd over the Selection (0 when
\* it is empty); together with the rows left out it makes up the roster's sum.
C3_TotalIsSumOfSelection ==
    InRange =>
        /\ page.total_cost = SumOver(Sel, 1..Len(Sel))
        /\ page.total_cost + SumOver(R, {i \in 1..Len(R) : R[i] \in Unselected})
              = SumOver(R, 1..Len(R))
        /\ (Sel = <<>> => page.total_cost = 0)

C3_Witness ==
    InRange /\ Len(Sel) >= 2 /\ Unselected # {} /\ page.total_cost # 0

\* C4 as claimed: average_cost is floor(total_cost / |Selection|) for a
\* non-empty Selection, and all three aggregates are 0 for an empty one.
C4_AverageIsFloor ==
    InRange =>
        /\ (Sel # <<>> => page.average_cost = Floor(page.total_cost, Len(Sel)))
        /\ (Sel = <<>> => page.average_cost = 0 /\ page.total_cost = 0
                            /\ page.median_cost = 0)

\* C4 as amended: average_cost is total_cost / |Selection| with the fraction
\* dropped toward zero, which is the floor whenever total_cost >= 0; all
\* three aggregates are 0 for an empty Selection.
C4_AverageIsTruncated ==
    InRange =>
        /\ (Sel # <<>> =>
              /\ IsTruncatedQuotient(page.average_cost, page.total_cost, Len(Sel))
              /\ (page.total_cost >= 0 =>
                    page.average_cost = Floor(page.total_cost, Len(Sel))))
        /\ (Sel = <<>> => page.average_cost = 0 /\ page.total_cost = 0
                            /\ page.median_cost = 0)

C4_Witness ==
    /\ InRange /\ Sel # <<>>
    /\ page.total_cost < 0
    /\ page.total_cost % Len(Sel) # 0
    /\ page.average_cost = Floor(page.total_cost, Len(Sel)) + 1

\* C5: for k in [1, |R|] median_cost is the middle value of the comp-sorted
\* Selection when its size is odd, and the mean of the two middle values with
\* the fraction dropped when its size is even.
C5_MedianIsTruncatedMiddle ==
    InRange /\ K >= 1 =>
        LET n == Len(Sel)
        IN  IF n % 2 = 1
            THEN page.median_cost = Sel[(n + 1) \div 2].comp_usd
            ELSE IsTruncatedQuotient(page.median_cost,
                    Sel[n \div 2].comp_usd + Sel[n \div 2 + 1].comp_usd, 2)

C5_Witness ==
    /\ InRange
    /\ Len(Sel) = 2
    /\ Sel[1].comp_usd = 300000 /\ Sel[2].comp_usd = 100001
    /\ page.median_cost = 200000

-----------------------------------------------------------------------------
(* Properties of the loader, the memo and the page (Spec) *)

\* the comp_usd fields of RowKinds that are numbers, with the integer each
\* one stands for once its fraction is dropped
NumericFields ==
    { <<(<<"3">>), 3>>, <<(<<"-", "2", ".", "7">>), -2>>, <<(<<"1">>), 1>> }

IsNumericField(s) == \E nf \in NumericFields : nf[1] = s

SummaryRow == Row(<<"S", "U", "M">>, <<"T", ":", "5">>)

\* C6: every record of the roster load_roster returned has an employee_id
\* starting with "E" and the integer value of a numeric comp_usd field; every
\* file row with both properties is in the roster, in file order; a summary
\* row is in no roster and no Selection, and total_cost counts selected
\* roster records only.
C6_RosterAdmission ==
    cache.full =>
        LET rows == source[1].rows
            df   == cache.df
        IN  /\ \A j \in 1..Len(df) :
                  /\ df[j].index \in 1..Len(rows)
                  /\ df[j].employee_id = rows[df[j].index].employee_id
                  /\ df[j].employee_id # <<>>
                  /\ df[j].employee_id[1] = "E"
                  /\ <<rows[df[j].index].comp_usd, df[j].comp_usd>> \in NumericFields
            /\ \A i, j \in 1..Len(df) : i < j => df[i].index < df[j].index
            /\ \A i \in 1..Len(rows) :
                  (/\ rows[i].employee_id # <<>>
                   /\ rows[i].employee_id[1] = "E"
                   /\ IsNumericField(rows[i].comp_usd))
                      => \E j \in 1..Len(df) : df[j].index = i
            /\ \A i \in 1..Len(rows) : rows[i] = SummaryRow =>
                  /\ \A j \in 1..Len(df) : df[j].index # i
                  /\ \A j \in 1..Len(Sel) : Sel[j].index # i
            /\ (Computed =>
                  /\ RangeOf(Sel) \subseteq RangeOf(df)
                  /\ page.total_cost = SumOver(Sel, 1..Len(Sel)))

C6_Witness ==
    /\ cache.full /\ Computed
    /\ SummaryRow \in RangeOf(source[1].rows)
    /\ Len(cache.df) = 2
    /\ Len(source[1].rows) = 3
    /\ Len(Sel) = 2

Results == {"slider", "kpi", "table", "info", "download", "caption"}

\* C7: when load_roster fails the run shows the error and stops: it leaves
\* no slider, no Selection, no aggregate and no KPI, table or export; results
\* are on the page only together with the roster they were computed from.
C7_LoadFailureStopsTheRun ==
    /\ (runs > 0 /\ ~cache.full => page.status = "error")
    /\ (page.status = "error" =>
          /\ page.shown = {"error"}
          /\ slider = None
          /\ Sel = <<>>
          /\ page.total_cost = 0 /\ page.average_cost = 0 /\ page.median_cost = 0)
    /\ (page.shown \cap Results # {} =>
          /\ Computed
          /\ cache.full
          /\ R = cache.df)

C7_Witness ==
    /\ runs > 0
    /\ file = NoCompColumn
    /\ page.status = "error"
    /\ page.shown = {"error"}

UsedTargets == {k \in DOMAIN seen : seen[k] # None}

\* C10: whatever targets were chosen before, the roster is the one that was
\* loaded and the Selection and aggregates of the current run are those first
\* obtained for the current target.
C10_HistoryIndependence ==
    Computed =>
        /\ cache.full
        /\ R = cache.df
        /\ cache.df = LoadRoster(source[1]).df
        /\ K \in UsedTargets
        /\ seen[K][1] = Summary(page)

C10_Witness ==
    /\ Computed
    /\ runs = 3
    /\ Len(R) >= 2
    /\ K = Len(R)
    /\ Cardinality(UsedTargets) = 2

====
